---------------------------- MODULE Spec2Model ----------------------------
(***************************************************************************)
(* A state-machine model of the KLIP PSF subtraction of                    *)
(* src/jwst/coron/klip.py: klip() and KarhunenLoeveTransform().            *)
(*                                                                         *)
(* Numbers.  A float64 is modelled by an exact rational <<n, d>> in lowest *)
(* terms with d > 0.  The IEEE special values are <<0, 0>> (NaN),          *)
(* <<1, 0>> (+Inf) and <<-1, 0>> (-Inf).  Rounding is not modelled.        *)
(* A vector that carries an irrational scale (a unit eigenvector, a        *)
(* normalized KL vector) is a record [dir, nsq] standing for the vector    *)
(* dir / sqrt(nsq); a scalar with such a scale is [num, nsq].  A square    *)
(* root that is kept as a value (np.std) is <<n, d, 2>> = sqrt(n / d).     *)
(***************************************************************************)
EXTENDS Integers, Sequences, FiniteSets, TLC

\* ------------------------------------------------------------------------
\* Bounds of the model
\* ------------------------------------------------------------------------

\* Largest number of reference images in refs_model.
MaxRefs == 2

\* ------------------------------------------------------------------------
\* float64 arithmetic (exact rationals with NaN and Inf)
\* ------------------------------------------------------------------------

Abs(x) == IF x < 0 THEN -x ELSE x

Sign(x) == IF x < 0 THEN -1 ELSE IF x > 0 THEN 1 ELSE 0

RECURSIVE Gcd(_, _)
Gcd(a, b) == IF b = 0 THEN a ELSE Gcd(b, a % b)

NaN == <<0, 0>>

Zero == <<0, 1>>

One == <<1, 1>>

\* The float with value n / d; a zero denominator gives NaN or a signed Inf.
Rat(n, d) ==
    IF d = 0 THEN <<Sign(n), 0>>
    ELSE LET g == Gcd(Abs(n), Abs(d))
         IN  <<(Sign(d) * n) \div g, Abs(d) \div g>>

\* ndarray.astype(np.float64) of an integer pixel value.
ToFloat(i) == Rat(i, 1)

IsNaN(x) == x = NaN

IsFinite(x) == x[2] # 0

RAdd(x, y) ==
    IF IsFinite(x) /\ IsFinite(y) THEN Rat(x[1] * y[2] + y[1] * x[2], x[2] * y[2])
    ELSE IF IsNaN(x) \/ IsNaN(y) THEN NaN
    ELSE IF ~IsFinite(x) /\ ~IsFinite(y) /\ x # y THEN NaN
    ELSE IF IsFinite(x) THEN y ELSE x

RNeg(x) == <<-x[1], x[2]>>

RSub(x, y) == RAdd(x, RNeg(y))

RMul(x, y) == Rat(x[1] * y[1], x[2] * y[2])

\* IEEE division: 0/0 is NaN, x/0 is a signed Inf; numpy only warns.
RDiv(x, y) ==
    IF IsNaN(x) \/ IsNaN(y) THEN NaN
    ELSE IF ~IsFinite(y) THEN (IF IsFinite(x) THEN Zero ELSE NaN)
    ELSE IF y[1] = 0 THEN <<Sign(x[1]), 0>>
    ELSE RMul(x, <<Sign(y[1]) * y[2], Abs(y[1])>>)

\* x <= y on finite floats.
RLeq(x, y) == x[1] * y[2] <= y[1] * x[2]

\* The integer root of a perfect square n >= 0, or -1.
IntRoot(n) == IF \E r \in 0..n : r * r = n THEN CHOOSE r \in 0..n : r * r = n ELSE -1

\* np.sqrt: exact for a ratio of perfect squares, else kept as the value
\* <<n, d, 2>> = sqrt(n / d); the root of a negative number is NaN.
RSqrt(x) ==
    IF ~IsFinite(x) THEN (IF x[1] > 0 THEN x ELSE NaN)
    ELSE IF x[1] < 0 THEN NaN
    ELSE IF IntRoot(x[1]) >= 0 /\ IntRoot(x[2]) >= 0 THEN <<IntRoot(x[1]), IntRoot(x[2])>>
    ELSE <<x[1], x[2], 2>>

\* ------------------------------------------------------------------------
\* Vectors and matrices (sequences of floats, sequences of rows)
\* ------------------------------------------------------------------------

\* An ndarray holds its elements: the sequence f with every element computed.
Array(f) == f \o <<>>

RECURSIVE Sum(_)
Sum(v) == IF v = <<>> THEN Zero ELSE RAdd(v[1], Sum(Tail(v)))

\* np.dot of two 1-D arrays of equal length.
Dot(u, v) == Sum(Array([i \in 1..Len(u) |-> RMul(u[i], v[i])]))

VSub(u, v) == Array([i \in 1..Len(u) |-> RSub(u[i], v[i])])

\* np.mean(v, dtype=np.float64)
Mean(v) == RDiv(Sum(v), ToFloat(Len(v)))

\* v - c for a scalar c (broadcast).
SubScalar(v, c) == Array([i \in 1..Len(v) |-> RSub(v[i], c)])

\* ------------------------------------------------------------------------
\* Images and reshaping (row-major, as numpy's default C order)
\* ------------------------------------------------------------------------

\* ndarray.shape of a 2-D image held as a sequence of H rows of W pixels.
Shape(img) == <<Len(img), Len(img[1])>>

\* ndarray.reshape(-1) of a 2-D array: rows concatenated.
Flatten(img) ==
    LET W == Len(img[1])
    IN  Array([i \in 1..(Len(img) * W) |->
                 img[((i - 1) \div W) + 1][((i - 1) % W) + 1]])

\* Mutant of Reshape: the vector is unflattened column by column.
ReshapeColumnMajor(v, shape) ==
    Array([r \in 1..shape[1] |->
             Array([c \in 1..shape[2] |-> v[(c - 1) * shape[1] + r]])])

\* ndarray.reshape(shape) of a 1-D array whose length is shape[1]*shape[2].
Reshape(v, shape) ==
    Array([r \in 1..shape[1] |->
             Array([c \in 1..shape[2] |-> v[(r - 1) * shape[2] + c]])])

\* ndarray.astype(np.float64) of a 2-D image.
AsFloat(img) ==
    Array([r \in 1..Len(img) |->
             Array([c \in 1..Len(img[r]) |-> ToFloat(img[r][c])])])

\* ------------------------------------------------------------------------
\* numpy library functions used by KarhunenLoeveTransform
\* ------------------------------------------------------------------------

\* np.cov(m): each row of m is a variable, each column an observation.
\* The row means are removed, the products are scaled by 1 / (P - 1), and
\* the result is squeezed: for a single row it is a 0-d array.
Cov(m) ==
    LET N    == Len(m)
        P    == Len(m[1])
        X    == Array([i \in 1..N |-> SubScalar(m[i], Mean(m[i]))])
        fact == ToFloat(P - 1)
        c    == Array([i \in 1..N |-> Array([j \in 1..N |->
                    RMul(Dot(X[i], X[j]), RDiv(One, fact))])])
    IN  IF N = 1 THEN [ndim |-> 0, a |-> c[1][1]] ELSE [ndim |-> 2, a |-> c]

IntVec(x) == Array([i \in 1..Len(x) |-> ToFloat(x[i])])

RECURSIVE GcdSeq(_)
GcdSeq(x) == IF x = <<>> THEN 0 ELSE Gcd(Abs(x[1]), GcdSeq(Tail(x)))

Lcm(a, b) == (a * b) \div Gcd(a, b)

RECURSIVE LcmSeq(_)
LcmSeq(x) == IF x = <<>> THEN 1 ELSE Lcm(x[1], LcmSeq(Tail(x)))

RECURSIVE IntSum(_)
IntSum(x) == IF x = <<>> THEN 0 ELSE x[1] + IntSum(Tail(x))

IntDot(x, y) == IntSum(Array([i \in 1..Len(x) |-> x[i] * y[i]]))

\* Components of the integer eigenvector directions the model searches.
EigComponents == {-1, 0, 1}

\* Directions beyond EigComponents that complete an orthogonal eigenbasis
\* of a covariance of rank one: for the outer product of (1, 2, 3) with
\* itself (three references that are 1, 2 and 3 times one pattern) and for
\* that of (1, 1, 1) (three identical references).
RankOneDirections == {<<1, 2, 3>>, <<2, -1, 0>>, <<3, 6, -5>>, <<1, 1, -2>>}

\* Candidate eigenvector directions: the primitive integer vectors with
\* small components, and the rank-one directions with either sign.
EigCandidates(N) ==
    {y \in [1..N -> EigComponents] : GcdSeq(y) = 1}
       \cup UNION {{y, Array([i \in 1..Len(y) |-> -y[i]])} :
                      y \in {z \in RankOneDirections : Len(z) = N}}

\* The common denominator of the finite rational matrix C.
CommonDen(C) ==
    LcmSeq(Array([i \in 1..Len(C) |->
                    LcmSeq(Array([j \in 1..Len(C) |-> C[i][j][2]]))]))

\* The integer matrix L * C for L = CommonDen(C): it has the eigenvectors of C.
IntScaled(C) ==
    LET L == CommonDen(C)
    IN  Array([i \in 1..Len(C) |->
                 Array([j \in 1..Len(C) |-> C[i][j][1] * (L \div C[i][j][2])])])

IntMatVec(S, x) == Array([i \in 1..Len(S) |-> IntDot(S[i], x)])

\* S x is a multiple of x.
IsEigVec(S, x) ==
    LET Sx == IntMatVec(S, x)
        xx == IntDot(x, x)
        q  == IntDot(x, Sx)
    IN  \A i \in 1..Len(x) : Sx[i] * xx = q * x[i]

\* The eigenvalue of eigenvector x of C = S / L: the Rayleigh quotient.
EigenValue(S, L, x) == Rat(IntDot(x, IntMatVec(S, x)), L * IntDot(x, x))

\* Sequences of k pairwise orthogonal members of E.
RECURSIVE OrthoBases(_, _)
OrthoBases(E, k) ==
    IF k = 0 THEN {<<>>}
    ELSE UNION {{Append(b, x) :
                    x \in {y \in E : \A i \in 1..Len(b) : IntDot(b[i], y) = 0}} :
                b \in OrthoBases(E, k - 1)}

\* np.linalg.eigh(C) for a symmetric C: eigenvalues w in ascending order and
\* a matrix v whose column v[k] is a unit eigenvector of w[k].  The solver
\* fixes neither the sign of a column nor the basis of a repeated
\* eigenvalue, so every orthogonal eigenbasis among the model's directions
\* is an outcome.
EighResults(C) ==
    LET N == Len(C)
        L == CommonDen(C)
        S == IntScaled(C)
        E == {x : x \in {y \in EigCandidates(N) : IsEigVec(S, y)}}
    IN  {[w |-> wb[1],
          v |-> Array([k \in 1..N |->
                         [dir |-> IntVec(wb[2][k]),
                          nsq |-> ToFloat(IntDot(wb[2][k], wb[2][k]))]])] :
            wb \in {x \in {<<Array([k \in 1..N |-> EigenValue(S, L, b[k])]), b>> :
                             b \in OrthoBases(E, N)} :
                      \A k \in 1..(N - 1) : RLeq(x[1][k], x[1][k + 1])}}

\* ndarray.argsort(): an index sequence that sorts w ascending (the default
\* sort is not stable: equal keys come in any order).
ArgsortResults(w) ==
    {p \in Permutations(1..Len(w)) :
        \A i \in 1..(Len(w) - 1) : RLeq(w[p[i]], w[p[i + 1]])}

\* Mutant of Reversed: the [::-1] is forgotten.
NotReversed(a) == a

\* a[::-1]
Reversed(a) == Array([i \in 1..Len(a) |-> a[Len(a) + 1 - i]])

\* a[idx] for an index array idx (also eigvect[:, idx] on the columns).
Take(a, idx) == Array([i \in 1..Len(idx) |-> a[idx[i]]])

\* Row k of np.dot(eigvect.T, m): column k of eigvect applied to the rows of m.
ProjectColumn(col, m) ==
    [dir |-> Array([p \in 1..Len(m[1]) |->
                Sum(Array([j \in 1..Len(m) |-> RMul(col.dir[j], m[j][p])]))]),
     nsq |-> col.nsq]

\* np.linalg.norm(x) squared, for x = dir / sqrt(nsq).
Norm2(x) == RDiv(Dot(x.dir, x.dir), x.nsq)

\* Mutant of NormalizeRow: the row is left as projected (normalize=False).
NormalizeRowSkipped(x) == x

\* klvect[k] /= np.linalg.norm(klvect[k]): every element is divided by the
\* norm; a zero norm divides 0 by 0.
NormalizeRow(x) ==
    LET n2 == Norm2(x)
    IN  IF IsFinite(n2) /\ n2 # Zero
        THEN [dir |-> x.dir, nsq |-> RMul(n2, x.nsq)]
        ELSE [dir |-> Array([i \in 1..Len(x.dir) |-> RDiv(x.dir[i], n2)]),
              nsq |-> One]

\* Mutant of SortEig: the eigenvalues are reordered, the columns are not.
SortEigvalOnly(e, idx) == [eigval |-> Take(e.w, idx), eigvect |-> e.v]

\* The sort of KarhunenLoeveTransform applied to one outcome of eigh.
SortEig(e, idx) == [eigval |-> Take(e.w, idx), eigvect |-> Take(e.v, idx)]

\* Lines 93-98: the sorted (eigval, eigvect) pairs, one per outcome of eigh
\* and of argsort.
SortedEig(m) ==
    {SortEig(ep[1], Reversed(ep[2])) :
        ep \in UNION {{<<e, p>> : p \in ArgsortResults(e.w)} :
                        e \in EighResults(Cov(m).a)}}

\* KarhunenLoeveTransform(m, normalize): the set of (klvect, eigval, eigvect)
\* it can return.
KarhunenLoeveTransform(m, normalize) ==
    {LET klvect == Array([k \in 1..Len(m) |-> ProjectColumn(s.eigvect[k], m)])
     IN  [klvect  |-> IF normalize
                      THEN Array([k \in 1..Len(klvect) |-> NormalizeRow(klvect[k])])
                      ELSE klvect,
          eigval  |-> s.eigval,
          eigvect |-> s.eigvect] :
        s \in SortedEig(m)}

\* ------------------------------------------------------------------------
\* Inputs of klip
\* ------------------------------------------------------------------------

\* Reference images (integer pixels, shape (2, 2)).
RefImages ==
    { <<<<1, 1>>, <<1, 1>>>>,
      <<<<1, 0>>, <<0, 0>>>>,
      <<<<0, 1>>, <<0, 0>>>>,
      <<<<0, 0>>, <<1, 1>>>>,
      <<<<1, 0>>, <<0, 1>>>> }

\* Target images: two of the references' shape, one of shape (1, 4) (same
\* pixel count, other shape) and one of shape (1, 2).
TargetImages ==
    { <<<<3, 1>>, <<0, 2>>>>,
      <<<<1, 0>>, <<0, 0>>>>,
      <<<<1, 0, 2, 0>>>>,
      <<<<1, 0>>>> }

\* The err array a target model arrives with (floats, all 7.0).
InputErr(img) == [r \in 1..Len(img) |-> [c \in 1..Len(img[r]) |-> <<7, 1>>]]

TargetModels ==
    {[data |-> d, err |-> InputErr(d), meta |-> "target"] : d \in TargetImages}

\* Mutant of RefMatrix: the loop of lines 50-52 is left out.
RefMatrixNotCentered(cube) ==
    Array([k \in 1..Len(cube) |-> Flatten(AsFloat(cube[k]))])

\* Mutant of RefMatrix: the mean image of the stack is removed from every
\* reference instead of each reference's own mean.
RefMatrixMeanImage(cube) ==
    LET flat == Array([k \in 1..Len(cube) |-> Flatten(AsFloat(cube[k]))])
        avg  == Array([p \in 1..Len(flat[1]) |->
                         Mean(Array([k \in 1..Len(cube) |-> flat[k][p]]))])
    IN  Array([k \in 1..Len(cube) |-> VSub(flat[k], avg)])

\* Mutant of RefMatrix: the mean of the whole cube is removed from every
\* reference.
RefMatrixCubeMean(cube) ==
    LET flat == Array([k \in 1..Len(cube) |-> Flatten(AsFloat(cube[k]))])
        mu   == Mean(Array([k \in 1..Len(cube) |-> Mean(flat[k])]))
    IN  Array([k \in 1..Len(cube) |-> SubScalar(flat[k], mu)])

\* The double-precision, flattened, row-mean-free reference matrix of klip
\* (lines 44-52) for a cube of reference images.
RefMatrix(cube) ==
    LET flat == Array([k \in 1..Len(cube) |-> Flatten(AsFloat(cube[k]))])
    IN  Array([k \in 1..Len(cube) |-> SubScalar(flat[k], Mean(flat[k]))])

\* The cubes of reference images offered to the model.
RefCubes == UNION {[1..n -> RefImages] : n \in 1..MaxRefs}

\* Cubes whose covariance has an eigenbasis among the model's directions (a
\* single reference never reaches the decomposition: see KLTRaise).
Representable(cube) ==
    Len(cube) = 1 \/ EighResults(Cov(RefMatrix(cube)).a) # {}

RefsModels ==
    {[data |-> c, meta |-> "refs"] : c \in {cc \in RefCubes : Representable(cc)}}

Truncations == (-1)..(MaxRefs + 1)

\* Mutant of SliceTo: a negative stop keeps nothing.
SliceToNoWrap(a, stop) ==
    LET n == IF stop < 0 THEN 0 ELSE IF stop > Len(a) THEN Len(a) ELSE stop
    IN  Array([i \in 1..n |-> a[i]])

\* Mutant of SliceTo: the last rows are kept instead of the first.
SliceFromEnd(a, stop) ==
    LET n == IF stop < 0 THEN (IF Len(a) + stop < 0 THEN 0 ELSE Len(a) + stop)
             ELSE IF stop > Len(a) THEN Len(a) ELSE stop
    IN  Array([i \in 1..n |-> a[Len(a) - n + i]])

\* klvect[:truncate] (python slicing: a negative stop counts from the end,
\* a stop beyond the end is the end).
SliceTo(a, stop) ==
    LET n == IF stop < 0 THEN (IF Len(a) + stop < 0 THEN 0 ELSE Len(a) + stop)
             ELSE IF stop > Len(a) THEN Len(a) ELSE stop
    IN  Array([i \in 1..n |-> a[i]])

\* np.dot(target, klvect.T): one coefficient [num, nsq] = num / sqrt(nsq)
\* per row of klvect.
Coeffs(target, klvect) ==
    Array([k \in 1..Len(klvect) |->
             [num |-> Dot(target, klvect[k].dir), nsq |-> klvect[k].nsq]])

\* np.dot(klvect.T, c): pixel i is the sum over k of klvect[k][i] * c[k];
\* the two factors 1 / sqrt(nsq) of a term multiply to 1 / nsq.
Combine(klvect, c, P) ==
    Array([i \in 1..P |->
             Sum(Array([k \in 1..Len(klvect) |->
                    RDiv(RMul(klvect[k].dir[i], c[k].num), klvect[k].nsq)]))])

\* np.dot(klvect.T, np.dot(x, klvect.T))
PsfFit(x, klvect, P) == Combine(klvect, Coeffs(x, klvect), P)

\* Mutant of StdAxis0: the sample standard deviation (divisor N - 1).
StdAxis0Sample(a) ==
    Array([p \in 1..Len(a[1]) |->
             LET col == Array([k \in 1..Len(a) |-> a[k][p]])
                 dev == SubScalar(col, Mean(col))
             IN  RSqrt(RDiv(Sum(Array([k \in 1..Len(a) |-> RMul(dev[k], dev[k])])),
                            ToFloat(Len(a) - 1)))])

\* np.std(a, 0): per column, the root of the mean squared deviation from
\* the column mean (divisor: the number of rows).
StdAxis0(a) ==
    Array([p \in 1..Len(a[1]) |->
             LET col == Array([k \in 1..Len(a) |-> a[k][p]])
                 dev == SubScalar(col, Mean(col))
             IN  RSqrt(Mean(Array([k \in 1..Len(a) |-> RMul(dev[k], dev[k])])))])

\* ------------------------------------------------------------------------
\* Objects and array buffers
\* ------------------------------------------------------------------------

\* An object or a buffer is named by the path that leads to it.  The two
\* input models, and the data arrays they hold:
TargetObject == <<"target_model">>

RefsObject == <<"refs_model">>

DataOf(obj) == obj \o <<"data">>

\* model.copy() (lines 34-35): a new model object.
ModelCopy(obj) == <<"copy">> \o obj

\* Mutant of AstypeBuffer: copy=False on data that is float64 already, the
\* array itself is returned.
AstypeNoCopy(buf) == buf

\* ndarray.astype(np.float64) (lines 39, 45; copy=True by default): a new
\* buffer.
AstypeBuffer(buf) == <<"astype">> \o buf

\* ndarray.reshape (lines 41, 48): a view on the same buffer.
ReshapeBuffer(buf) == buf

\* The result of np.dot, of an arithmetic expression or of np.std: a new
\* buffer, named by the local that holds it.
NewBuffer(name) == <<name>>

\* ------------------------------------------------------------------------
\* State of one call klip(target_model, refs_model, truncate)
\* ------------------------------------------------------------------------

VARIABLES
    target_model,   \* argument: the target ImageModel [data, err, meta]
    refs_model,     \* argument: the reference CubeModel [data, meta]
    truncate,       \* argument: the number of KL rows to keep
    pc,             \* position of the call
    raised,         \* the exception that ended the call, or "None"
    output_target,  \* local model, returned first
    output_psf,     \* local model, returned second
    target,         \* flattened target
    tshape,         \* shape of the target image
    refs,           \* flattened, row-mean-free reference matrix
    rshape,         \* shape of the reference cube
    nrefs,          \* number of references
    klvect,         \* KL basis (truncated after line 58)
    eigval,         \* eigenvalues returned by KarhunenLoeveTransform
    eigvect,        \* eigenvector columns returned by KarhunenLoeveTransform
    psfimg,         \* fitted PSF image
    outimg,         \* PSF-subtracted target image
    written,        \* the objects and array buffers written so far
    other,          \* a second call of klip in progress: its own arguments,
                    \* locals and position (IdleCall when there is none)
    ipc,            \* a call of IPCStep.process (src/jwst/ipc/ipc_step.py)
    lin,            \* a call of linearity.do_correction
    subarr          \* a call of linearity.get_subarray

args == <<target_model, refs_model, truncate>>

outputs == <<output_target, output_psf>>

loaded == <<target, tshape, refs, rshape, nrefs>>

klt == <<klvect, eigval, eigvect>>

images == <<psfimg, outimg>>

\* Everything the call owns.
call == <<args, pc, raised, outputs, loaded, klt, images, written>>

\* The calls of the other modules.
steps == <<ipc, lin, subarr>>

vars == <<call, other, steps>>

\* No second call.
IdleCall == [pc |-> "idle"]

Init ==
    /\ target_model \in TargetModels
    /\ refs_model \in RefsModels
    /\ truncate \in Truncations
    /\ pc = "load"
    /\ raised = "None"
    /\ output_target = <<>>
    /\ output_psf = <<>>
    /\ target = <<>>
    /\ tshape = <<>>
    /\ refs = <<>>
    /\ rshape = <<>>
    /\ nrefs = 0
    /\ klvect = <<>>
    /\ eigval = <<>>
    /\ eigvect = <<>>
    /\ psfimg = <<>>
    /\ outimg = <<>>
    /\ written = {}
    /\ other = IdleCall
    /\ ipc = IdleCall
    /\ lin = IdleCall
    /\ subarr = IdleCall

\* Lines 33-52: copy the target model twice, flatten the target, flatten the
\* references and remove each reference's own mean.
Load ==
    /\ pc = "load"
    /\ output_target' = target_model
    /\ output_psf' = target_model
    /\ target' = Flatten(AsFloat(target_model.data))
    /\ tshape' = Shape(target_model.data)
    /\ rshape' = <<Len(refs_model.data)>> \o Shape(refs_model.data[1])
    /\ nrefs' = Len(refs_model.data)
    /\ refs' = RefMatrix(refs_model.data)
    /\ written' = written \cup {ReshapeBuffer(AstypeBuffer(DataOf(RefsObject)))}
    /\ pc' = "klt"
    /\ UNCHANGED <<args, raised, klt, images, other, steps>>

\* Line 55 with one reference: np.cov gives a 0-d array and np.linalg.eigh
\* raises LinAlgError (it needs at least two dimensions).
KLTRaise ==
    /\ pc = "klt"
    /\ Cov(refs).ndim = 0
    /\ raised' = "LinAlgError"
    /\ pc' = "raised"
    /\ UNCHANGED <<args, outputs, loaded, klt, images, written, other, steps>>

\* Line 55: klvect, eigval, eigvect = KarhunenLoeveTransform(refs, True).
KLT ==
    /\ pc = "klt"
    /\ Cov(refs).ndim = 2
    /\ \E r \in KarhunenLoeveTransform(refs, TRUE) :
          /\ klvect' = r.klvect
          /\ eigval' = r.eigval
          /\ eigvect' = r.eigvect
    /\ written' = written \cup {NewBuffer("klvect")}
    /\ pc' = "truncate"
    /\ UNCHANGED <<args, raised, outputs, loaded, images, other, steps>>

\* Line 58: klvect = klvect[:truncate].
Truncate ==
    /\ pc = "truncate"
    /\ klvect' = SliceTo(klvect, truncate)
    /\ pc' = "fit"
    /\ UNCHANGED <<args, raised, outputs, loaded, eigval, eigvect, images,
                   written, other, steps>>

\* Line 61 when the target and the references differ in pixel count: np.dot
\* raises ValueError (shapes not aligned).
FitRaise ==
    /\ pc = "fit"
    /\ Len(target) # Len(refs[1])
    /\ raised' = "ValueError"
    /\ pc' = "raised"
    /\ UNCHANGED <<args, outputs, loaded, klt, images, written, other, steps>>

\* Lines 61-71: the PSF fit, the subtraction, and the two reshapes into the
\* output models.
Fit ==
    /\ pc = "fit"
    /\ Len(target) = Len(refs[1])
    /\ LET fit == PsfFit(target, klvect, Len(refs[1]))
           sub == VSub(SubScalar(target, Mean(target)), fit)
       IN  /\ psfimg' = Reshape(fit, tshape)
           /\ outimg' = Reshape(sub, tshape)
    /\ output_psf' = [output_psf EXCEPT !.data = psfimg']
    /\ output_target' = [output_target EXCEPT !.data = outimg']
    /\ written' = written \cup {ModelCopy(TargetObject)}
    /\ pc' = "err"
    /\ UNCHANGED <<args, raised, loaded, klt, other, steps>>

\* The residual of each reference fitted with the truncated basis (lines 78-80).
RefsFit(m, kl) ==
    Array([k \in 1..Len(m) |-> VSub(m[k], PsfFit(m[k], kl, Len(m[1])))])

\* Mutant of ErrEstimate: the two output models are one object, so the error
\* map shows in output_psf too.
ErrEstimateShared ==
    /\ pc = "err"
    /\ output_target' =
          [output_target EXCEPT !.err = Reshape(StdAxis0(RefsFit(refs, klvect)), tshape)]
    /\ output_psf' = [output_psf EXCEPT !.err = output_target'.err]
    /\ written' = written \cup {NewBuffer("refs_fit"), ModelCopy(TargetObject)}
    /\ pc' = "done"
    /\ UNCHANGED <<args, raised, loaded, klt, images, other, steps>>

\* Lines 78-84: the error map and the return.
ErrEstimate ==
    /\ pc = "err"
    /\ output_target' =
          [output_target EXCEPT !.err = Reshape(StdAxis0(RefsFit(refs, klvect)), tshape)]
    /\ written' = written \cup {NewBuffer("refs_fit"), ModelCopy(TargetObject)}
    /\ pc' = "done"
    /\ UNCHANGED <<args, raised, output_psf, loaded, klt, images, other, steps>>

Next ==
    \/ Load
    \/ KLTRaise
    \/ KLT
    \/ Truncate
    \/ FitRaise
    \/ Fit
    \/ ErrEstimate

Spec == Init /\ [][Next]_vars

\* ------------------------------------------------------------------------
\* Calls on stacks of rank one
\* ------------------------------------------------------------------------

\* The image f * img.
Scaled(f, img) ==
    Array([r \in 1..Len(img) |-> Array([c \in 1..Len(img[r]) |-> f * img[r][c]])])

\* Base patterns: three that are not constant and a constant one.
BasePatterns ==
    { <<<<1, 0>>, <<0, 0>>>>,
      <<<<0, 1>>, <<1, 0>>>>,
      <<<<2, 0>>, <<1, 1>>>>,
      <<<<1, 1>>, <<1, 1>>>> }

\* The references 1, 2 and 3 times a base pattern, two and three identical
\* references, and a single reference.
RankOneCubes ==
    {<<b, Scaled(2, b), Scaled(3, b)>> : b \in BasePatterns}
       \cup {<<b, b>> : b \in BasePatterns}
       \cup {<<b, b, b>> : b \in BasePatterns}
       \cup {<<b>> : b \in BasePatterns}

\* Targets for a cube: multiples of its first image, one other image of
\* the same shape and one of another pixel count.
RankOneTargets(cube) ==
    {Scaled(f, cube[1]) : f \in {1, 2}}
       \cup { <<<<3, 1>>, <<0, 2>>>>, <<<<1, 0>>>> }

RankOneInit ==
    /\ refs_model \in {[data |-> c, meta |-> "refs"] : c \in RankOneCubes}
    /\ target_model \in
          {[data |-> d, err |-> InputErr(d), meta |-> "target"] :
              d \in RankOneTargets(refs_model.data)}
    /\ truncate \in {1, 2, 3}
    /\ pc = "load"
    /\ raised = "None"
    /\ output_target = <<>>
    /\ output_psf = <<>>
    /\ target = <<>>
    /\ tshape = <<>>
    /\ refs = <<>>
    /\ rshape = <<>>
    /\ nrefs = 0
    /\ klvect = <<>>
    /\ eigval = <<>>
    /\ eigvect = <<>>
    /\ psfimg = <<>>
    /\ outimg = <<>>
    /\ written = {}
    /\ other = IdleCall
    /\ ipc = IdleCall
    /\ lin = IdleCall
    /\ subarr = IdleCall

RankOneSpec == RankOneInit /\ [][Next]_vars

\* ------------------------------------------------------------------------
\* Two calls of klip in progress at once
\* ------------------------------------------------------------------------

\* The second call runs the same lines as the first on its own arguments
\* and locals, the fields of the record other; the steps of the two calls
\* interleave.  klip and KarhunenLoeveTransform use no module-level name but
\* np and log, which they do not assign, so no step of one call reads or
\* writes what the other call owns.

\* The state of a call that has just been entered.
EnteredCall(tm, rm, K) ==
    [pc |-> "load", raised |-> "None",
     target_model |-> tm, refs_model |-> rm, truncate |-> K,
     output_target |-> <<>>, output_psf |-> <<>>,
     target |-> <<>>, tshape |-> <<>>, refs |-> <<>>,
     klvect |-> <<>>, eigval |-> <<>>, eigvect |-> <<>>,
     written |-> {}]

\* Lines 33-52 of the second call.
OtherLoad ==
    /\ other.pc = "load"
    /\ other' = [other EXCEPT
          !.output_target = other.target_model,
          !.output_psf = other.target_model,
          !.target = Flatten(AsFloat(other.target_model.data)),
          !.tshape = Shape(other.target_model.data),
          !.refs = RefMatrix(other.refs_model.data),
          !.written = @ \cup {ReshapeBuffer(AstypeBuffer(DataOf(RefsObject)))},
          !.pc = "klt"]
    /\ UNCHANGED <<call, steps>>

\* Line 55 of the second call with one reference.
OtherKLTRaise ==
    /\ other.pc = "klt"
    /\ Cov(other.refs).ndim = 0
    /\ other' = [other EXCEPT !.raised = "LinAlgError", !.pc = "raised"]
    /\ UNCHANGED <<call, steps>>

\* Line 55 of the second call.
OtherKLT ==
    /\ other.pc = "klt"
    /\ Cov(other.refs).ndim = 2
    /\ \E r \in KarhunenLoeveTransform(other.refs, TRUE) :
          other' = [other EXCEPT
             !.klvect = r.klvect,
             !.eigval = r.eigval,
             !.eigvect = r.eigvect,
             !.written = @ \cup {NewBuffer("klvect")},
             !.pc = "truncate"]
    /\ UNCHANGED <<call, steps>>

\* Mutant of OtherTruncate: klvect is a module-level name, so line 58 of the
\* second call also replaces the basis of the first.
OtherTruncateGlobal ==
    /\ other.pc = "truncate"
    /\ other' = [other EXCEPT
          !.klvect = SliceTo(other.klvect, other.truncate),
          !.pc = "fit"]
    /\ klvect' = SliceTo(other.klvect, other.truncate)
    /\ UNCHANGED <<args, pc, raised, outputs, loaded, eigval, eigvect, images,
                   written, steps>>

\* Line 58 of the second call.
OtherTruncate ==
    /\ other.pc = "truncate"
    /\ other' = [other EXCEPT
          !.klvect = SliceTo(other.klvect, other.truncate),
          !.pc = "fit"]
    /\ UNCHANGED <<call, steps>>

\* Line 61 of the second call when the pixel counts differ.
OtherFitRaise ==
    /\ other.pc = "fit"
    /\ Len(other.target) # Len(other.refs[1])
    /\ other' = [other EXCEPT !.raised = "ValueError", !.pc = "raised"]
    /\ UNCHANGED <<call, steps>>

\* Lines 61-71 of the second call.
OtherFit ==
    /\ other.pc = "fit"
    /\ Len(other.target) = Len(other.refs[1])
    /\ LET fit == PsfFit(other.target, other.klvect, Len(other.refs[1]))
           sub == VSub(SubScalar(other.target, Mean(other.target)), fit)
       IN  other' = [other EXCEPT
              !.output_psf.data = Reshape(fit, other.tshape),
              !.output_target.data = Reshape(sub, other.tshape),
              !.written = @ \cup {ModelCopy(TargetObject)},
              !.pc = "err"]
    /\ UNCHANGED <<call, steps>>

\* Lines 78-84 of the second call.
OtherErrEstimate ==
    /\ other.pc = "err"
    /\ other' = [other EXCEPT
          !.output_target.err =
              Reshape(StdAxis0(RefsFit(other.refs, other.klvect)), other.tshape),
          !.written = @ \cup {NewBuffer("refs_fit"), ModelCopy(TargetObject)},
          !.pc = "done"]
    /\ UNCHANGED <<call, steps>>

\* The calls offered to the two-call model: <<target image, reference cube,
\* truncate>>.  The third raises at line 61, the fourth at line 55.
PairedCalls ==
    { << <<<<3, 1>>, <<0, 2>>>>,
         << <<<<1, 0>>, <<0, 0>>>>, <<<<0, 1>>, <<0, 0>>>> >>, 1 >>,
      << <<<<1, 0>>, <<0, 0>>>>,
         << <<<<0, 0>>, <<1, 1>>>>, <<<<1, 0>>, <<0, 1>>>> >>, 2 >>,
      << <<<<1, 0>>>>,
         << <<<<1, 0>>, <<0, 0>>>>, <<<<0, 1>>, <<0, 0>>>> >>, 1 >>,
      << <<<<1, 0>>, <<0, 0>>>>,
         << <<<<1, 0>>, <<0, 1>>>> >>, 1 >> }

PairedInit ==
    /\ \E a \in PairedCalls : \E b \in PairedCalls \ {a} :
          /\ target_model = [data |-> a[1], err |-> InputErr(a[1]), meta |-> "target"]
          /\ refs_model = [data |-> a[2], meta |-> "refs"]
          /\ truncate = a[3]
          /\ other = EnteredCall(
                        [data |-> b[1], err |-> InputErr(b[1]), meta |-> "target"],
                        [data |-> b[2], meta |-> "refs"], b[3])
    /\ pc = "load"
    /\ raised = "None"
    /\ output_target = <<>>
    /\ output_psf = <<>>
    /\ target = <<>>
    /\ tshape = <<>>
    /\ refs = <<>>
    /\ rshape = <<>>
    /\ nrefs = 0
    /\ klvect = <<>>
    /\ eigval = <<>>
    /\ eigvect = <<>>
    /\ psfimg = <<>>
    /\ outimg = <<>>
    /\ written = {}
    /\ ipc = IdleCall
    /\ lin = IdleCall
    /\ subarr = IdleCall

PairedNext ==
    \/ Load
    \/ KLTRaise
    \/ KLT
    \/ Truncate
    \/ FitRaise
    \/ Fit
    \/ ErrEstimate
    \/ OtherLoad
    \/ OtherKLTRaise
    \/ OtherKLT
    \/ OtherTruncate
    \/ OtherFitRaise
    \/ OtherFit
    \/ OtherErrEstimate

PairedSpec == PairedInit /\ [][PairedNext]_vars

\* ------------------------------------------------------------------------
\* IPCStep.process (src/jwst/ipc/ipc_step.py)
\* ------------------------------------------------------------------------

\* No call of klip: the state of klip() in the models of the other modules.
KlipIdle ==
    /\ target_model = <<>>
    /\ refs_model = <<>>
    /\ truncate = 0
    /\ pc = "idle"
    /\ raised = "None"
    /\ output_target = <<>>
    /\ output_psf = <<>>
    /\ target = <<>>
    /\ tshape = <<>>
    /\ refs = <<>>
    /\ rshape = <<>>
    /\ nrefs = 0
    /\ klvect = <<>>
    /\ eigval = <<>>
    /\ eigvect = <<>>
    /\ psfimg = <<>>
    /\ outimg = <<>>
    /\ written = {}
    /\ other = IdleCall

\* The names the module binds at import (lines 1-3): Step, datamodels and
\* ipc_corr.  The body of process looks up the name models.
ModuleGlobals == {"Step", "datamodels", "ipc_corr"}

\* The namespaces a call runs in: the module as imported, and the module
\* with the name models bound to the datamodels package from outside
\* (ipc_step.models = datamodels), without which no line after 17 runs.
Namespaces == {ModuleGlobals, ModuleGlobals \cup {"models"}}

\* The input models: their data and the meta.cal_step.ipc they arrive with.
IPCInputs == [data : 1..3, ipc : {"NONE", "COMPLETE"}]

\* What get_reference_file answers for the input.
ReferenceFiles == {"N/A", "ipc_a.fits", "ipc_b.fits"}

\* The data of the model do_correction returns for an input.
CorrectedData(d) == {d, d + 10}

NoModel == [data |-> 0, ipc |-> "NONE"]

IPCInit ==
    /\ KlipIdle
    /\ lin = IdleCall
    /\ subarr = IdleCall
    /\ \E g \in Namespaces : \E m \in IPCInputs : \E f \in ReferenceFiles :
          ipc = [pc |-> "open_input", globals |-> g, input |-> m,
                 reffile |-> f, ipc_name |-> "", open |-> {},
                 opened |-> {}, corrected |-> FALSE,
                 result |-> NoModel, raised |-> "None"]

\* line 17 in the module as imported: the name models is not bound.
IPCOpenInputNameError ==
    /\ ipc.pc = "open_input"
    /\ "models" \notin ipc.globals
    /\ ipc' = [ipc EXCEPT !.pc = "raised", !.raised = "NameError"]
    /\ UNCHANGED <<call, other, lin, subarr>>

\* line 17: with models.open(input) as input_model.
IPCOpenInput ==
    /\ ipc.pc = "open_input"
    /\ "models" \in ipc.globals
    /\ ipc' = [ipc EXCEPT !.pc = "get_reference",
                          !.open = @ \cup {"input_model"},
                          !.opened = @ \cup {"input_model"}]
    /\ UNCHANGED <<call, other, lin, subarr>>

\* lines 20-21: self.ipc_name = self.get_reference_file(input_model, 'ipc').
IPCGetReference ==
    /\ ipc.pc = "get_reference"
    /\ ipc' = [ipc EXCEPT !.pc = "check", !.ipc_name = ipc.reffile]
    /\ UNCHANGED <<call, other, lin, subarr>>

\* lines 24-29: no reference file; the copy of the input is marked and
\* returned, and the with statement closes input_model on the way out.
IPCSkip ==
    /\ ipc.pc = "check"
    /\ ipc.ipc_name = "N/A"
    /\ ipc' = [ipc EXCEPT !.pc = "done",
                          !.result = [ipc.input EXCEPT !.ipc = "SKIPPED"],
                          !.open = @ \ {"input_model"}]
    /\ UNCHANGED <<call, other, lin, subarr>>

\* line 32: ipc_model = models.IPCModel(self.ipc_name).
IPCOpenReference ==
    /\ ipc.pc = "check"
    /\ ipc.ipc_name # "N/A"
    /\ ipc' = [ipc EXCEPT !.pc = "correct",
                          !.open = @ \cup {"ipc_model"},
                          !.opened = @ \cup {"ipc_model"}]
    /\ UNCHANGED <<call, other, lin, subarr>>

\* line 35: ipc_corr.do_correction raises.  The exception leaves the with
\* block, which closes input_model; line 38 is not reached.
IPCDoCorrectionRaise ==
    /\ ipc.pc = "correct"
    /\ ipc' = [ipc EXCEPT !.pc = "raised", !.raised = "Exception",
                          !.open = @ \ {"input_model"}]
    /\ UNCHANGED <<call, other, lin, subarr>>

\* line 35: result = ipc_corr.do_correction(input_model, ipc_model).
IPCDoCorrection ==
    /\ ipc.pc = "correct"
    /\ \E d \in CorrectedData(ipc.input.data) :
          ipc' = [ipc EXCEPT !.pc = "close", !.corrected = TRUE,
                             !.result = [ipc.input EXCEPT !.data = d]]
    /\ UNCHANGED <<call, other, lin, subarr>>

\* lines 38-39: ipc_model.close(); result.meta.cal_step.ipc = 'COMPLETE'.
IPCCloseReference ==
    /\ ipc.pc = "close"
    /\ ipc' = [ipc EXCEPT !.pc = "return",
                          !.open = @ \ {"ipc_model"},
                          !.result = [@ EXCEPT !.ipc = "COMPLETE"]]
    /\ UNCHANGED <<call, other, lin, subarr>>

\* line 41: return result; the with statement closes input_model.
IPCReturn ==
    /\ ipc.pc = "return"
    /\ ipc' = [ipc EXCEPT !.pc = "done", !.open = @ \ {"input_model"}]
    /\ UNCHANGED <<call, other, lin, subarr>>

IPCNext ==
    \/ IPCOpenInputNameError
    \/ IPCOpenInput
    \/ IPCGetReference
    \/ IPCSkip
    \/ IPCOpenReference
    \/ IPCDoCorrectionRaise
    \/ IPCDoCorrection
    \/ IPCCloseReference
    \/ IPCReturn

IPCSpec == IPCInit /\ [][IPCNext]_vars

\* ------------------------------------------------------------------------
\* Linearity correction (src/jwst/linearity/linearity.py)
\* ------------------------------------------------------------------------

\* dqflags.pixel['NO_LIN_CORR'] and dqflags.group['SATURATED'].
NO_LIN_CORR == 1048576

SATURATED == 2

\* np.bitwise_and and np.bitwise_or of two unsigned words.
RECURSIVE BitwiseAnd(_, _)
BitwiseAnd(a, b) ==
    IF a = 0 \/ b = 0 THEN 0
    ELSE (IF a % 2 = 1 /\ b % 2 = 1 THEN 1 ELSE 0)
         + 2 * BitwiseAnd(a \div 2, b \div 2)

RECURSIVE BitwiseOr(_, _)
BitwiseOr(a, b) ==
    IF a = 0 THEN b
    ELSE IF b = 0 THEN a
    ELSE (IF a % 2 = 1 \/ b % 2 = 1 THEN 1 ELSE 0)
         + 2 * BitwiseOr(a \div 2, b \div 2)

\* np.bitwise_or of two 2-d arrays of one shape.
BitwiseOr2(a, b) ==
    Array([y \in 1..Len(a) |->
        Array([x \in 1..Len(a[1]) |-> BitwiseOr(a[y][x], b[y][x])])])

\* The rows and columns of the last two dimensions of an array of ndim
\* dimensions.
RECURSIVE LastTwo(_, _)
LastTwo(a, ndim) ==
    IF ndim > 2 THEN LastTwo(a[1], ndim - 1) ELSE <<Len(a), Len(a[1])>>

\* The indices start:stop selects from an axis of length n, by the rules
\* of a Python slice (a negative bound counts from the end, every bound is
\* clipped to the axis), as 1-based positions.
SliceIndices(start, stop, n) ==
    LET norm(i) == IF i < 0 THEN (IF i + n < 0 THEN 0 ELSE i + n)
                   ELSE IF i > n THEN n ELSE i
        lo == norm(start)
        hi == norm(stop)
    IN  Array([k \in 1..(IF hi > lo THEN hi - lo ELSE 0) |-> lo + k])

\* A view of the last two dimensions of an array: the rows and the columns
\* of the array it shows.  The whole array is the view of all of them.
WholeView(a, ndim) ==
    [rows |-> Array([r \in 1..LastTwo(a, ndim)[1] |-> r]),
     cols |-> Array([c \in 1..LastTwo(a, ndim)[2] |-> c])]

\* The values seen through a view: a[..., rows, cols].
RECURSIVE Gather(_, _, _)
Gather(a, ndim, view) ==
    IF ndim > 2
    THEN Array([z \in 1..Len(a) |-> Gather(a[z], ndim - 1, view)])
    ELSE Array([r \in 1..Len(view.rows) |->
             Array([c \in 1..Len(view.cols) |->
                 a[view.rows[r]][view.cols[c]]])])

SubarrayKeys == {"xstart", "xsize", "ystart", "ysize"}

\* lines 296-299: one of the four subarray metadata values is None.  A
\* value that is None is a key the record subarray does not have.
SubarrayMissing(reference) == SubarrayKeys \ DOMAIN reference.subarray # {}

\* The starts are taken as 0-based already.
GetSubarrayViewNoShift(input_array, ndim, reference) ==
    LET xstart == reference.subarray.xstart
        xstop == xstart + reference.subarray.xsize
        ystart == reference.subarray.ystart
        ystop == ystart + reference.subarray.ysize
        shape == LastTwo(input_array, ndim)
    IN  [rows |-> SliceIndices(ystart, ystop, shape[1]),
         cols |-> SliceIndices(xstart, xstop, shape[2])]

\* lines 302-309: the view input_array[..., ystart:ystop, xstart:xstop].
GetSubarrayView(input_array, ndim, reference) ==
    LET xstart == reference.subarray.xstart - 1
        xstop == xstart + reference.subarray.xsize
        ystart == reference.subarray.ystart - 1
        ystop == ystart + reference.subarray.ysize
        shape == LastTwo(input_array, ndim)
    IN  [rows |-> SliceIndices(ystart, ystop, shape[1]),
         cols |-> SliceIndices(xstart, xstop, shape[2])]

\* get_subarray where it returns: the values of the view.
GetSubarray(input_array, ndim, reference) ==
    Gather(input_array, ndim, GetSubarrayView(input_array, ndim, reference))

\* ref_matches_sci: ref_model.coeffs.shape[1:] == sci_model.data.shape[2:].
RefMatchesSci(ref_model, sci_model) ==
    LastTwo(ref_model.coeffs, 3) = LastTwo(sci_model.data, 4)

\* The benign set with the 1.0 at index 0.
BenCoeffsConstantTerm(n) ==
    Array([z \in 1..n |-> IF z = 1 THEN One ELSE Zero])

\* ben_coeffs: np.zeros(shape[0]) with ben_cor[1] = 1.0, for n coefficients.
BenCoeffs(n) ==
    Array([z \in 1..n |-> IF z = 2 THEN One ELSE Zero])

\* The loops of lines 185-187 and 238-239: lin_coeffs[:, y, x] = ben_cor for
\* the pixels <<y, x>> of the view lin_coeffs, written into the array the
\* view shows.
AssignBenign(coeffs, view, pixels) ==
    LET ben_cor == BenCoeffs(Len(coeffs))
        hit == {<<view.rows[p[1]], view.cols[p[2]]>> : p \in pixels}
    IN  Array([z \in 1..Len(coeffs) |->
            Array([r \in 1..Len(coeffs[z]) |->
                Array([c \in 1..Len(coeffs[z][r]) |->
                    IF <<r, c>> \in hit THEN ben_cor[z]
                    ELSE coeffs[z][r][c]])])])

\* The pixels of a view, as <<y, x>> positions in the view.
ViewPixels(view) == (1..Len(view.rows)) \X (1..Len(view.cols))

\* lines 227-233: the pixels of lin_dq with NO_LIN_CORR set.
FlaggedPixels(lin_dq, view) ==
    {p \in ViewPixels(view) :
        BitwiseAnd(lin_dq[p[1]][p[2]], NO_LIN_CORR) = NO_LIN_CORR}

\* lines 176-177: the pixels of lin_coeffs with a NaN coefficient.
NaNPixels(lin_coeffs, view) ==
    {p \in ViewPixels(view) :
        \E z \in 1..Len(lin_coeffs) : IsNaN(lin_coeffs[z][p[1]][p[2]])}

\* lines 177, 191: nan_array, zero but NO_LIN_CORR at the NaN pixels.
NanArray(view, pixels) ==
    Array([y \in 1..Len(view.rows) |->
        Array([x \in 1..Len(view.cols) |->
            IF <<y, x>> \in pixels THEN NO_LIN_CORR ELSE 0])])

\* line 98: (ramp * 0).astype(np.uint32).
ZerosLike(ramp) ==
    Array([i \in 1..Len(ramp) |->
        Array([g \in 1..Len(ramp[i]) |->
            Array([y \in 1..Len(ramp[i][g]) |->
                Array([x \in 1..Len(ramp[i][g][y]) |-> 0])])])])

\* --- the inputs ---

\* The coefficients of a reference pixel: 1, 2, .., n, or the same with a
\* NaN in one place.
PixelCoeffs(n) ==
    {Array([z \in 1..n |-> ToFloat(z)])}
        \cup {Array([z \in 1..n |-> IF z = j THEN NaN ELSE ToFloat(z)]) :
                j \in 1..n}

\* The reference pixels under the science pixels: coefficients and DQ word.
RefPixels(n) == [c : PixelCoeffs(n), dq : {0, NO_LIN_CORR, NO_LIN_CORR + 1}]

\* The reference pixel outside the science subarray: flagged, with a NaN.
PadPixel(n) ==
    [c |-> Array([z \in 1..n |-> IF z = 1 THEN NaN ELSE ToFloat(z + 5)]),
     dq |-> NO_LIN_CORR]

\* The reference model of a grid (rows of pixels).
RefModel(grid, n) ==
    [coeffs |-> Array([z \in 1..n |->
                   Array([y \in 1..Len(grid) |->
                       Array([x \in 1..Len(grid[y]) |-> grid[y][x].c[z]])])]),
     dq |-> Array([y \in 1..Len(grid) |->
                Array([x \in 1..Len(grid[y]) |-> grid[y][x].dq])])]

\* The references offered for a science array of one row and two columns,
\* each with the subarray metadata of the science model: the reference of
\* the same size, and references with one more column or row on one side.
\* In the last one the science model has no xstart.
RefLayouts(p, q, n) ==
    LET pad == PadPixel(n)
        meta(xs, ys) == [xstart |-> xs, xsize |-> 2, ystart |-> ys, ysize |-> 1]
    IN  { <<RefModel(<< <<p, q>> >>, n), meta(1, 1)>>,
          <<RefModel(<< <<pad, p, q>> >>, n), meta(2, 1)>>,
          <<RefModel(<< <<p, q, pad>> >>, n), meta(1, 1)>>,
          <<RefModel(<< <<pad, pad>>, <<p, q>> >>, n), meta(1, 2)>>,
          <<RefModel(<< <<p, q>>, <<pad, pad>> >>, n), meta(1, 1)>>,
          <<RefModel(<< <<pad, p, q>> >>, n),
            [xsize |-> 2, ystart |-> 1, ysize |-> 1]>> }

\* The science models: one integration of one group of one row and two
\* columns; groupdq is given or empty.
ScienceModels(subarray) ==
    [data : {<< << << <<3, 5>> >> >> >>},
     pixeldq : {<< <<0, 0>> >>, << <<1, NO_LIN_CORR>> >>},
     groupdq : {<<>>, << << << <<0, SATURATED>> >> >> >>},
     subarray : {subarray}]

\* The data apply_linearity_func returns for a ramp (linearity_func is not
\* part of the sources): the ramp itself or a changed ramp.
CorrectedRamps(ramp) ==
    {ramp,
     Array([i \in 1..Len(ramp) |->
        Array([g \in 1..Len(ramp[i]) |->
            Array([y \in 1..Len(ramp[i][g]) |->
                Array([x \in 1..Len(ramp[i][g][y]) |->
                    ramp[i][g][y][x] + 10])])])])}

NoView == [rows |-> <<>>, cols |-> <<>>]

\* A call of do_correction(input_model, lin_model).  heap holds the model
\* objects by name; output_model, lin_coeffs and lin_dq are references: the
\* name of a model, and views of lin_model.coeffs and lin_model.dq.  given
\* keeps the two arguments as they were passed.
LinInit ==
    /\ KlipIdle
    /\ ipc = IdleCall
    /\ subarr = IdleCall
    /\ \E n \in {2, 3} : \E p \in RefPixels(n) : \E q \in RefPixels(n) :
       \E l \in RefLayouts(p, q, n) : \E s \in ScienceModels(l[2]) :
          lin = [pc |-> "copy",
                 heap |-> [input_model |-> s, lin_model |-> l[1],
                           copy |-> <<>>],
                 given |-> [input_model |-> s, lin_model |-> l[1]],
                 output_model |-> "None",
                 dq |-> <<>>,
                 lin_coeffs |-> NoView,
                 lin_dq |-> NoView,
                 raised |-> "None"]

\* The model the name output_model refers to.
OutputModel == lin.heap[lin.output_model]

\* output_model is the input model itself.
LinCopyAlias ==
    /\ lin.pc = "copy"
    /\ lin' = [lin EXCEPT !.pc = "propagate",
                          !.output_model = "input_model"]
    /\ UNCHANGED <<call, other, ipc, subarr>>

\* line 34: output_model = input_model.copy().
LinCopy ==
    /\ lin.pc = "copy"
    /\ lin' = [lin EXCEPT !.pc = "propagate",
                          !.heap.copy = lin.heap.input_model,
                          !.output_model = "copy"]
    /\ UNCHANGED <<call, other, ipc, subarr>>

\* lines 37, 66-69: the sizes differ and get_subarray raises (296-300).
LinPropagateRaise ==
    /\ lin.pc = "propagate"
    /\ ~RefMatchesSci(lin.heap.lin_model, OutputModel)
    /\ SubarrayMissing(OutputModel)
    /\ lin' = [lin EXCEPT !.pc = "raised", !.raised = "ValueError"]
    /\ UNCHANGED <<call, other, ipc, subarr>>

\* lines 37, 66-72: propagate_dq_info(output_model, lin_model).
LinPropagateDQ ==
    /\ lin.pc = "propagate"
    /\ (RefMatchesSci(lin.heap.lin_model, OutputModel)
           \/ ~SubarrayMissing(OutputModel))
    /\ LET lindq == IF RefMatchesSci(lin.heap.lin_model, OutputModel)
                    THEN lin.heap.lin_model.dq
                    ELSE GetSubarray(lin.heap.lin_model.dq, 2, OutputModel)
       IN  lin' = [lin EXCEPT
                      !.pc = "select",
                      !.heap[lin.output_model].pixeldq = BitwiseOr2(@, lindq)]
    /\ UNCHANGED <<call, other, ipc, subarr>>

\* lines 94-107: the group DQ, and lin_coeffs and lin_dq: the arrays of
\* the reference model themselves, or the slices get_subarray returns.
LinSelect ==
    /\ lin.pc = "select"
    /\ LET ref == lin.heap.lin_model
           match == RefMatchesSci(ref, OutputModel)
       IN  lin' = [lin EXCEPT
                      !.pc = "flag",
                      !.dq = IF Len(OutputModel.groupdq) = 0
                             THEN ZerosLike(OutputModel.data)
                             ELSE OutputModel.groupdq,
                      !.lin_coeffs = IF match THEN WholeView(ref.coeffs, 3)
                                     ELSE GetSubarrayView(ref.coeffs, 3, OutputModel),
                      !.lin_dq = IF match THEN WholeView(ref.dq, 2)
                                 ELSE GetSubarrayView(ref.dq, 2, OutputModel)]
    /\ UNCHANGED <<call, other, ipc, subarr>>

\* lines 110, 227-246: correct_for_flag(lin_coeffs, lin_dq) assigns into
\* lin_coeffs, that is into the array of the reference model.
LinCorrectForFlag ==
    /\ lin.pc = "flag"
    /\ LET lin_dq == Gather(lin.heap.lin_model.dq, 2, lin.lin_dq)
       IN  lin' = [lin EXCEPT
                      !.pc = "nan",
                      !.heap.lin_model.coeffs =
                          AssignBenign(@, lin.lin_coeffs,
                                       FlaggedPixels(lin_dq, lin.lin_dq))]
    /\ UNCHANGED <<call, other, ipc, subarr>>

\* The DQ of the NaN pixels replaces pixeldq.
LinCorrectForNaNOverwrite ==
    /\ lin.pc = "nan"
    /\ LET lin_coeffs == Gather(lin.heap.lin_model.coeffs, 3, lin.lin_coeffs)
           pixels == NaNPixels(lin_coeffs, lin.lin_coeffs)
       IN  lin' = [lin EXCEPT
                      !.pc = "apply",
                      !.heap = [lin.heap EXCEPT
                          !.lin_model.coeffs =
                              AssignBenign(@, lin.lin_coeffs, pixels),
                          ![lin.output_model].pixeldq =
                              NanArray(lin.lin_coeffs, pixels)]]
    /\ UNCHANGED <<call, other, ipc, subarr>>

\* lines 113, 176-200: correct_for_NaN(lin_coeffs, input).
LinCorrectForNaN ==
    /\ lin.pc = "nan"
    /\ LET lin_coeffs == Gather(lin.heap.lin_model.coeffs, 3, lin.lin_coeffs)
           pixels == NaNPixels(lin_coeffs, lin.lin_coeffs)
       IN  lin' = [lin EXCEPT
                      !.pc = "apply",
                      !.heap = [lin.heap EXCEPT
                          !.lin_model.coeffs =
                              AssignBenign(@, lin.lin_coeffs, pixels),
                          ![lin.output_model].pixeldq =
                              BitwiseOr2(@, NanArray(lin.lin_coeffs, pixels))]]
    /\ UNCHANGED <<call, other, ipc, subarr>>

\* lines 116-119, 42: input.data = apply_linearity_func(ramp, dq,
\* lin_coeffs, sat_val); return output_model.
LinApply ==
    /\ lin.pc = "apply"
    /\ \E d \in CorrectedRamps(OutputModel.data) :
          lin' = [lin EXCEPT !.pc = "done",
                             !.heap[lin.output_model].data = d]
    /\ UNCHANGED <<call, other, ipc, subarr>>

LinNext ==
    \/ LinCopy
    \/ LinPropagateRaise
    \/ LinPropagateDQ
    \/ LinSelect
    \/ LinCorrectForFlag
    \/ LinCorrectForNaN
    \/ LinApply

LinSpec == LinInit /\ [][LinNext]_vars

\* --- get_subarray on its own ---

\* The input arrays: the 2-d array of 2 rows and 3 columns and the 3-d array
\* of 2 such planes, every element different.
SubarrayInputs ==
    LET plane(z) == Array([y \in 1..2 |->
                        Array([x \in 1..3 |-> 100 * z + 10 * y + x])])
    IN  {[input_array |-> plane(0), ndim |-> 2],
         [input_array |-> <<plane(1), plane(2)>>, ndim |-> 3]}

\* The subarray metadata of the reference model: all four values, inside
\* the array or not, or some of them None.
SubarrayMetas ==
    LET full == [xstart : 0..3, xsize : 1..3, ystart : 0..2, ysize : 1..2]
        one == [xstart |-> 1, xsize |-> 1, ystart |-> 1, ysize |-> 1]
    IN  full \cup {[k \in SubarrayKeys \ {m} |-> one[k]] : m \in SubarrayKeys}
             \cup {[k \in {} |-> 0]}

SubarrayInit ==
    /\ KlipIdle
    /\ ipc = IdleCall
    /\ lin = IdleCall
    /\ \E a \in SubarrayInputs : \E m \in SubarrayMetas :
          subarr = [pc |-> "called", input_array |-> a.input_array,
                    ndim |-> a.ndim, reference |-> [subarray |-> m],
                    result |-> <<>>, raised |-> "None"]

\* lines 296-300: raise ValueError('subarray metadata values not found').
GetSubarrayRaise ==
    /\ subarr.pc = "called"
    /\ SubarrayMissing(subarr.reference)
    /\ subarr' = [subarr EXCEPT !.pc = "raised", !.raised = "ValueError"]
    /\ UNCHANGED <<call, other, ipc, lin>>

\* lines 302-309: return input_array[..., ystart:ystop, xstart:xstop].
GetSubarrayReturn ==
    /\ subarr.pc = "called"
    /\ ~SubarrayMissing(subarr.reference)
    /\ subarr' = [subarr EXCEPT
                     !.pc = "returned",
                     !.result = GetSubarray(subarr.input_array, subarr.ndim,
                                            subarr.reference)]
    /\ UNCHANGED <<call, other, ipc, lin>>

SubarrayNext ==
    \/ GetSubarrayRaise
    \/ GetSubarrayReturn

SubarraySpec == SubarrayInit /\ [][SubarrayNext]_vars

\* ------------------------------------------------------------------------
\* Properties
\* ------------------------------------------------------------------------

\* Number of reference images handed to the call.
NRefs == Len(refs_model.data)

\* KarhunenLoeveTransform has returned.
AfterKLT == pc \in {"truncate", "fit", "err", "done"} \/ raised = "ValueError"

\* Line 58 has run.
AfterTruncate == pc \in {"fit", "err", "done"} \/ raised = "ValueError"

\* The number of rows python's klvect[:stop] keeps of n rows.
SliceLen(n, stop) ==
    IF stop > n THEN n
    ELSE IF stop >= 0 THEN stop
    ELSE IF n + stop > 0 THEN n + stop ELSE 0

\* C1 as stated: a truncation rank K < 1 or K > N makes klip fail with an
\* error and return no output models, so a call that returns had 1 <= K <= N.
C1_RejectsBadTruncation ==
    pc = "done" => (1 <= truncate /\ truncate <= NRefs)

\* The call is well formed apart from its rank: at least two references and
\* as many pixels in the target as in each reference.
WellFormedImages ==
    /\ NRefs >= 2
    /\ Len(Flatten(target_model.data)) = Len(Flatten(refs_model.data[1]))

\* C1 amended: klip never rejects a truncation rank.  The rank only goes
\* through the slice klvect[:truncate]: K > N keeps all N basis vectors,
\* K = 0 keeps none and K < 0 keeps max(N + K, 0), and a call with at least
\* two references and matching pixel counts raises nothing whatever K is.
C1_TruncateIsASlice ==
    /\ AfterTruncate => Len(klvect) = SliceLen(NRefs, truncate)
    /\ WellFormedImages => raised = "None"

\* A call with K > N that returned, fitted with all N basis vectors.
C1_Witness ==
    /\ pc = "done"
    /\ truncate > NRefs
    /\ Len(klvect) = NRefs
    /\ raised = "None"

\* The target and the reference images differ in (H, W).
ShapeMismatch == Shape(target_model.data) # Shape(refs_model.data[1])

\* C2: klip fails whenever the target's (H, W) differs from the references'
\* (H, W), also when H * W is the same: such a call never returns normally.
C2_ShapeMismatchFails ==
    ShapeMismatch => pc # "done"

\* A float that is NaN or infinite appears in the basis rows.
NonFiniteBasis == \E k \in 1..Len(klvect) : \E i \in 1..Len(klvect[k].dir) :
                     ~IsFinite(klvect[k].dir[i])

\* C3: with normalization requested, a zero-norm KL vector is reported as an
\* error: a basis returned by KarhunenLoeveTransform never holds NaN or Inf.
C3_NoNaNBasis ==
    AfterKLT => ~NonFiniteBasis

\* C4: the eigenvalues returned by KarhunenLoeveTransform are in
\* non-increasing order.
C4_EigvalNonIncreasing ==
    AfterKLT => \A i \in 1..(Len(eigval) - 1) : RLeq(eigval[i + 1], eigval[i])

\* A returned call on references with two different eigenvalues.
C4_Witness ==
    /\ pc = "done"
    /\ Len(eigval) >= 2
    /\ eigval[1] # eigval[2]

\* The pixel-space direction of eigenvector column col: the combination of
\* the rows of m with the column's components as weights.
PixelDirection(col, m) ==
    [p \in 1..Len(m[1]) |->
        Sum(Array([j \in 1..Len(m) |-> RMul(col.dir[j], m[j][p])]))]

\* C5: when KarhunenLoeveTransform returns, eigval[k], eigvect[k] and
\* klvect[k] belong to one eigenpair of the covariance of the reference
\* matrix: the column is an eigenvector with that eigenvalue, the KL vector
\* is the normalized projection of that column through the reference
\* matrix, and the squared norm of the projection is (P - 1) times the
\* eigenvalue.
C5_EigenpairsStayPaired ==
    pc = "truncate" =>
        LET C == Cov(refs).a
        IN  /\ Len(klvect) = Len(eigvect)
            /\ \A k \in 1..Len(eigvect) :
                  LET d == Array(PixelDirection(eigvect[k], refs))
                      n == Dot(d, d)
                  IN  /\ \A i \in 1..Len(C) :
                            Dot(C[i], eigvect[k].dir)
                               = RMul(eigval[k], eigvect[k].dir[i])
                      /\ RDiv(n, eigvect[k].nsq)
                            = RMul(ToFloat(Len(refs[1]) - 1), eigval[k])
                      /\ n # Zero => (klvect[k].dir = d /\ klvect[k].nsq = n)

\* A call whose transform has returned two different eigenvalues and a
\* finite first KL vector.
C5_Witness ==
    /\ pc = "truncate"
    /\ Len(eigval) >= 2
    /\ eigval[1] # eigval[2]
    /\ Len(klvect) >= 1
    /\ \A i \in 1..Len(klvect[1].dir) : IsFinite(klvect[1].dir[i])

\* The target vector with its own mean removed.
CenteredTarget == SubScalar(target, Mean(target))

\* The inner products of x with the rows of the truncated basis (each row
\* being dir / sqrt(nsq), the product with row k is Dot(x, dir) / sqrt(nsq);
\* the root is carried in Weighted).
InnerProducts(x) ==
    Array([k \in 1..Len(klvect) |-> Dot(x, klvect[k].dir)])

\* Pixel i of the combination of the rows of the truncated basis weighted
\* by the inner products c (the two 1 / sqrt(nsq) of a term give 1 / nsq).
Weighted(c, i) ==
    Sum(Array([k \in 1..Len(klvect) |->
           RMul(RDiv(c[k], klvect[k].nsq), klvect[k].dir[i])]))

\* C6: the coefficients of the fit (the inner products of line 61) equal
\* the inner products of the mean-centered target with each row of the
\* truncated basis, and the PSF model is built from them.
C6_CoefficientsOfCenteredTarget ==
    /\ pc = "err" =>
          \A k \in 1..Len(klvect) :
              Coeffs(target, klvect)[k].num = Dot(CenteredTarget, klvect[k].dir)
    /\ pc = "done" =>
          LET cf == InnerProducts(CenteredTarget)
          IN  \A r \in 1..tshape[1] : \A c \in 1..tshape[2] :
                  psfimg[r][c] = Weighted(cf, (r - 1) * tshape[2] + c)

\* A returned call whose target has a mean other than zero and a finite,
\* nonzero coefficient.
C6_Witness ==
    /\ pc = "done"
    /\ Mean(target) # Zero
    /\ \E k \in 1..Len(klvect) :
          LET c == Dot(target, klvect[k].dir)
          IN  IsFinite(c) /\ c # Zero

\* C7: the PSF output is the combination of the truncated basis weighted by
\* the fit coefficients, the residual output is (target minus its mean)
\* minus that combination pixel for pixel, and both outputs have the
\* target's shape with pixel (r, c) at flat index (r - 1) * W + c.
C7_OutputsPixelForPixel ==
    pc = "done" =>
        LET d == target_model.data
            H == Len(d)
            W == Len(d[1])
            mu == RDiv(Sum(Array([i \in 1..(H * W) |->
                                    ToFloat(d[((i - 1) \div W) + 1][((i - 1) % W) + 1])])),
                       ToFloat(H * W))
            cf == InnerProducts(target)
        IN  /\ Shape(output_psf.data) = <<H, W>>
            /\ Shape(output_target.data) = <<H, W>>
            /\ \A r \in 1..H : \A c \in 1..W :
                  /\ output_psf.data[r][c] = Weighted(cf, (r - 1) * W + c)
                  /\ output_target.data[r][c] =
                        RSub(RSub(ToFloat(d[r][c]), mu), output_psf.data[r][c])

\* A returned call on a target of two rows and two columns whose PSF model
\* is finite and differs between the pixels (1, 2) and (2, 1).
C7_Witness ==
    /\ pc = "done"
    /\ Shape(target_model.data) = <<2, 2>>
    /\ IsFinite(output_psf.data[1][2])
    /\ IsFinite(output_psf.data[2][1])
    /\ output_psf.data[1][2] # output_psf.data[2][1]

\* The self-residual of reference k: its mean-centered row minus the
\* projection of that row onto the truncated basis.
SelfResidual(k) ==
    LET flat == Flatten(AsFloat(refs_model.data[k]))
        row == SubScalar(flat, Mean(flat))
        cf == InnerProducts(row)
    IN  Array([i \in 1..Len(row) |-> RSub(row[i], Weighted(cf, i))])

\* The population variance (divisor: the number of samples) of a sequence.
PopulationVariance(x) ==
    LET mu == RDiv(Sum(x), ToFloat(Len(x)))
    IN  RDiv(Sum(Array([k \in 1..Len(x) |->
                   RMul(RSub(x[k], mu), RSub(x[k], mu))])),
             ToFloat(Len(x)))

\* C8: the error map is, per pixel, the population standard deviation
\* (divisor N) of the N self-residuals, each reference fitted on its own
\* with the truncated basis the target was fitted with.
C8_ErrIsPopulationStd ==
    pc = "done" =>
        LET res == Array([k \in 1..NRefs |-> SelfResidual(k)])
        IN  \A r \in 1..tshape[1] : \A c \in 1..tshape[2] :
                LET i == (r - 1) * tshape[2] + c
                    col == Array([k \in 1..NRefs |-> res[k][i]])
                IN  output_target.err[r][c] = RSqrt(PopulationVariance(col))

\* A returned call with an error-map pixel that is finite and not zero.
C8_Witness ==
    /\ pc = "done"
    /\ \E r \in 1..tshape[1] : \E c \in 1..tshape[2] :
          LET e == output_target.err[r][c]
          IN  e[2] # 0 /\ e[1] # 0

\* C9: every row of the basis KarhunenLoeveTransform returns with
\* normalize=True has L2 norm 1, rows of zero eigenvalues included.
C9_UnitNormBasis ==
    pc = "truncate" => \A k \in 1..Len(klvect) : Norm2(klvect[k]) = One

\* C10: for a rank 1 <= K <= N, line 58 keeps exactly the first K rows of
\* the descending-ordered basis, unchanged and in order, the eigenvalue of
\* every discarded component is at most that of every kept one, and K = N
\* discards nothing.
C10_KeepsFirstK ==
    [][(pc = "truncate" /\ 1 <= truncate /\ truncate <= NRefs) =>
          /\ Len(klvect) = NRefs
          /\ Len(klvect') = truncate
          /\ \A i \in 1..truncate : klvect'[i] = klvect[i]
          /\ \A i \in 1..truncate : \A j \in (truncate + 1)..NRefs :
                RLeq(eigval[j], eigval[i])
          /\ truncate = NRefs => klvect' = klvect]_vars

\* A returned call that discarded the component of a strictly smaller
\* eigenvalue.
C10_Witness ==
    /\ pc = "done"
    /\ 1 <= truncate
    /\ truncate < NRefs
    /\ Len(klvect) = truncate
    /\ eigval[truncate] # eigval[truncate + 1]

\* x <= y as float64 compares: false as soon as one side is NaN.
FloatLeq(x, y) == ~IsNaN(x) /\ ~IsNaN(y) /\ RLeq(x, y)

\* The sum of squares of the self-residual of reference k when the first K
\* rows of the basis KarhunenLoeveTransform returned are kept.
SelfResidualSumSq(k, K) ==
    LET kl == SliceTo(klvect, K)
        res == VSub(refs[k], PsfFit(refs[k], kl, Len(refs[k])))
    IN  Dot(res, res)

\* C11: for every reference k, the sum of squares of its self-residual is
\* weakly decreasing as K goes from 1 to N.
C11_SelfResidualDecreasesWithK ==
    pc = "truncate" =>
        \A k \in 1..NRefs : \A K \in 1..(NRefs - 1) :
            FloatLeq(SelfResidualSumSq(k, K + 1), SelfResidualSumSq(k, K))

\* Weights tried for writing the target as a combination of the references.
CombinationWeights == 0..3

\* The target image is a linear combination of the reference images.
TargetIsCombination ==
    /\ Shape(target_model.data) = Shape(refs_model.data[1])
    /\ \E a \in [1..NRefs -> CombinationWeights] :
          \A r \in 1..Len(target_model.data) :
              \A c \in 1..Len(target_model.data[1]) :
                  target_model.data[r][c] =
                     IntSum(Array([k \in 1..NRefs |->
                                     a[k] * refs_model.data[k][r][c]]))

\* C12: with K = N and a target that is a linear combination of the
\* references, the residual image klip returns is zero at every pixel,
\* linearly dependent references included.
C12_FullRankRoundTrip ==
    (pc = "done" /\ truncate = NRefs /\ TargetIsCombination) =>
        \A r \in 1..tshape[1] : \A c \in 1..tshape[2] :
            output_target.data[r][c] = Zero

\* The references are 1, 2 and 3 times one non-constant base pattern.
RankOneStack ==
    /\ NRefs = 3
    /\ refs_model.data[2] = Scaled(2, refs_model.data[1])
    /\ refs_model.data[3] = Scaled(3, refs_model.data[1])
    /\ \E r \in 1..2 : \E c \in 1..2 :
          refs_model.data[1][r][c] # refs_model.data[1][1][1]

\* The target is a multiple of the base pattern.
TargetIsMultiple ==
    \E f \in 1..3 : target_model.data = Scaled(f, refs_model.data[1])

\* C13: for the references 1, 2 and 3 times a non-constant base pattern the
\* first returned eigenvalue is strictly positive and the other two are
\* zero, and with K = 1 and a target that is a multiple of the pattern the
\* residual image is zero at every pixel.
C13_RankOneScenario ==
    /\ (pc = "truncate" /\ RankOneStack) =>
          /\ Len(eigval) = 3
          /\ eigval[1] # Zero /\ RLeq(Zero, eigval[1])
          /\ eigval[2] = Zero
          /\ eigval[3] = Zero
    /\ (pc = "done" /\ RankOneStack /\ truncate = 1 /\ TargetIsMultiple) =>
          \A r \in 1..tshape[1] : \A c \in 1..tshape[2] :
              output_target.data[r][c] = Zero

\* A returned call of the scenario with K = 1 whose PSF model has a pixel
\* that is finite and not zero.
C13_Witness ==
    /\ pc = "done"
    /\ RankOneStack
    /\ truncate = 1
    /\ TargetIsMultiple
    /\ \E r \in 1..tshape[1] : \E c \in 1..tshape[2] :
          IsFinite(output_psf.data[r][c]) /\ output_psf.data[r][c] # Zero

\* One reference, K = 1 and the target equal to that reference.
SingleReferenceCall ==
    /\ NRefs = 1
    /\ truncate = 1
    /\ target_model.data = refs_model.data[1]

\* C14: with one reference, K = 1 and the target equal to the reference,
\* klip raises nothing and returns an error map that is zero at every pixel.
C14_SingleReference ==
    SingleReferenceCall =>
        /\ raised = "None"
        /\ pc = "done" =>
              \A r \in 1..tshape[1] : \A c \in 1..tshape[2] :
                  output_target.err[r][c] = Zero

\* At least two references, all the same image.
IdenticalStack ==
    /\ NRefs >= 2
    /\ \A k \in 1..NRefs : refs_model.data[k] = refs_model.data[1]

\* C15 as stated: for N >= 2 identical references every row of the
\* mean-centered reference matrix is the zero vector, the covariance matrix
\* is the zero matrix and all eigenvalues are zero.
C15_IdenticalGivesZero ==
    (pc = "truncate" /\ IdenticalStack) =>
        /\ \A k \in 1..NRefs : \A p \in 1..Len(refs[k]) : refs[k][p] = Zero
        /\ \A i \in 1..NRefs : \A j \in 1..NRefs : Cov(refs).a[i][j] = Zero
        /\ \A k \in 1..Len(eigval) : eigval[k] = Zero

\* C15 amended: for N >= 2 identical references every row of the
\* reference matrix is the image minus its own mean (the zero vector only
\* for a constant image), every entry of the covariance matrix is the
\* variance v of that row (divisor P - 1), and the eigenvalues are N * v
\* once and zero N - 1 times; all is zero exactly when the image is constant.
C15_IdenticalGivesRankOne ==
    (pc = "truncate" /\ IdenticalStack) =>
        LET img  == refs_model.data[1]
            W    == Len(img[1])
            P    == Len(img) * W
            mu   == RDiv(ToFloat(IntSum(Array([p \in 1..P |->
                            img[((p - 1) \div W) + 1][((p - 1) % W) + 1]]))),
                         ToFloat(P))
            row  == Array([p \in 1..P |->
                       RSub(ToFloat(img[((p - 1) \div W) + 1][((p - 1) % W) + 1]), mu)])
            v    == RDiv(Dot(row, row), ToFloat(P - 1))
            C    == Cov(refs).a
            flat == \A r \in 1..Len(img) : \A c \in 1..W : img[r][c] = img[1][1]
        IN  /\ \A k \in 1..NRefs : refs[k] = row
            /\ \A i \in 1..NRefs : \A j \in 1..NRefs : C[i][j] = v
            /\ eigval[1] = RMul(ToFloat(NRefs), v)
            /\ \A k \in 2..Len(eigval) : eigval[k] = Zero
            /\ (v = Zero) <=> flat

\* A call on identical references that are not constant, past the
\* transform, with a positive first eigenvalue.
C15_Witness ==
    /\ pc = "truncate"
    /\ IdenticalStack
    /\ NRefs = 3
    /\ eigval[1] # Zero
    /\ \E p \in 1..Len(refs[1]) : refs[1][p] # Zero

\* The call has a target of the references' shape and a rank 1 <= K <= N.
ValidInput ==
    /\ Shape(target_model.data) = Shape(refs_model.data[1])
    /\ 1 <= truncate
    /\ truncate <= NRefs

\* e >= 0 as float64 compares (e a rational or a kept root): false for NaN.
NonNegative(e) == ~(e[1] = 0 /\ e[2] = 0) /\ e[1] >= 0

\* C16: for every valid input, every pixel of the error map klip returns
\* is >= 0.
C16_ErrNonNegative ==
    (pc = "done" /\ ValidInput) =>
        \A r \in 1..tshape[1] : \A c \in 1..tshape[2] :
            NonNegative(output_target.err[r][c])

\* C17: the N basis vectors KarhunenLoeveTransform returns are pairwise
\* orthogonal: the inner product of rows i and j is zero whenever i # j.
C17_BasisOrthogonal ==
    pc = "truncate" =>
        \A i \in 1..Len(klvect) : \A j \in 1..Len(klvect) :
            i # j => Dot(klvect[i].dir, klvect[j].dir) = Zero

\* The mean of the pixels of an integer image.
ImageMean(img) ==
    RDiv(ToFloat(IntSum(Array([r \in 1..Len(img) |-> IntSum(img[r])]))),
         ToFloat(Len(img) * Len(img[1])))

\* C18: after the vectorization of lines 37-52 every reference row is the
\* flattened reference minus its own mean, so every row sums to zero, and
\* the target vector is the flattened target with no mean removed.
C18_RowsCenteredTargetNot ==
    pc = "klt" =>
        /\ Len(refs) = NRefs
        /\ \A k \in 1..NRefs :
              LET img == refs_model.data[k]
                  W   == Len(img[1])
                  mu  == ImageMean(img)
              IN  /\ Len(refs[k]) = Len(img) * W
                  /\ \A r \in 1..Len(img) : \A c \in 1..W :
                        refs[k][(r - 1) * W + c] = RSub(ToFloat(img[r][c]), mu)
                  /\ Sum(refs[k]) = Zero
        /\ LET img == target_model.data
               W   == Len(img[1])
           IN  /\ Len(target) = Len(img) * W
               /\ \A r \in 1..Len(img) : \A c \in 1..W :
                     target[(r - 1) * W + c] = ToFloat(img[r][c])

\* A vectorized call with two references of different means and a target
\* whose mean is not zero.
C18_Witness ==
    /\ pc = "klt"
    /\ NRefs >= 2
    /\ ImageMean(refs_model.data[1]) # ImageMean(refs_model.data[2])
    /\ Sum(target) # Zero

\* The input models and their data arrays.
InputBuffers ==
    {TargetObject, RefsObject, DataOf(TargetObject), DataOf(RefsObject)}

\* C19: klip leaves its inputs unchanged: no step writes the input models
\* or their data arrays; the in-place centering, the in-place normalization
\* and the assignments to the output models all land in copies.
C19_InputsUnchanged ==
    written \cap InputBuffers = {}

\* A returned call that centered a reference of nonzero mean in place and
\* wrote both output models.
C19_Witness ==
    /\ pc = "done"
    /\ ImageMean(refs_model.data[1]) # Zero
    /\ AstypeBuffer(DataOf(RefsObject)) \in written
    /\ ModelCopy(TargetObject) \in written
    /\ output_target.data # output_psf.data

\* What klip(tm, rm, K) gives when it runs alone, from line 33 to its end:
\* the exception it raises or the pair of output models it returns, one
\* outcome per outcome of the eigensolver.
KlipAlone(tm, rm, K) ==
    LET t  == Flatten(AsFloat(tm.data))
        m  == RefMatrix(rm.data)
        sh == Shape(tm.data)
    IN  IF Len(rm.data) = 1
        THEN {[raised |-> "LinAlgError"]}
        ELSE IF Len(t) # Len(m[1])
        THEN {[raised |-> "ValueError"]}
        ELSE {LET kl  == SliceTo(r.klvect, K)
                  fit == PsfFit(t, kl, Len(t))
                  sub == VSub(SubScalar(t, Mean(t)), fit)
              IN  [raised |-> "None",
                   output_target |->
                       [data |-> Reshape(sub, sh),
                        err |-> Reshape(StdAxis0(RefsFit(m, kl)), sh),
                        meta |-> tm.meta],
                   output_psf |->
                       [data |-> Reshape(fit, sh), err |-> tm.err,
                        meta |-> tm.meta]] :
                r \in KarhunenLoeveTransform(m, TRUE)}

\* C20: when two calls on different target/reference pairs interleave in
\* any order, each ends as it can end when run alone: with the same
\* exception, or with the same pair of output models.
C20_InterleavedAsAlone ==
    /\ pc = "done" =>
          [raised |-> "None", output_target |-> output_target,
           output_psf |-> output_psf]
             \in KlipAlone(target_model, refs_model, truncate)
    /\ pc = "raised" =>
          [raised |-> raised] \in KlipAlone(target_model, refs_model, truncate)
    /\ other.pc = "done" =>
          [raised |-> "None", output_target |-> other.output_target,
           output_psf |-> other.output_psf]
             \in KlipAlone(other.target_model, other.refs_model, other.truncate)
    /\ other.pc = "raised" =>
          [raised |-> other.raised]
             \in KlipAlone(other.target_model, other.refs_model, other.truncate)

\* Both calls have returned, with different outputs, after their steps
\* interleaved.
C20_Witness ==
    /\ pc = "done"
    /\ other.pc = "done"
    /\ output_target # other.output_target

\* C21: every basis vector KarhunenLoeveTransform returns for the
\* row-mean-centered reference matrix sums to zero over the pixels, after
\* normalization too.
C21_BasisSumsToZero ==
    pc = "truncate" => \A k \in 1..Len(klvect) : Sum(klvect[k].dir) = Zero

\* C22: both returned models are copies of the target model: output_psf
\* differs from it only in data (its err is the target's input err) and
\* output_target only in data and err; the attributes and the metadata are
\* the target model's.
C22_OutputsAreCopies ==
    pc = "done" =>
        /\ DOMAIN output_psf = DOMAIN target_model
        /\ DOMAIN output_target = DOMAIN target_model
        /\ output_psf.err = target_model.err
        /\ output_psf.meta = target_model.meta
        /\ output_target.meta = target_model.meta
        /\ output_psf.data = psfimg
        /\ output_target.data = outimg

\* A returned call whose error map differs from the input err and whose
\* two data arrays differ from each other.
C22_Witness ==
    /\ pc = "done"
    /\ output_target.err # target_model.err
    /\ output_psf.err = target_model.err
    /\ output_target.data # output_psf.data

\* The call of process has returned or raised.
IPCEnded == ipc.pc \in {"done", "raised"}

\* C23: when the reference file name is 'N/A', process returns a copy of
\* the input model marked SKIPPED, without opening a reference model or
\* calling the correction; otherwise COMPLETE is set on the corrected
\* result only after do_correction has returned and the reference model is
\* closed; every returned result is SKIPPED or COMPLETE.
C23_StatusProtocol ==
    /\ (IPCEnded /\ ipc.reffile = "N/A") =>
          /\ ipc.pc = "done"
          /\ ipc.result = [ipc.input EXCEPT !.ipc = "SKIPPED"]
          /\ "ipc_model" \notin ipc.opened
          /\ ~ipc.corrected
    /\ (IPCEnded /\ ipc.reffile # "N/A" /\ ipc.raised # "Exception") =>
          /\ ipc.pc = "done"
          /\ ipc.result.ipc = "COMPLETE"
    /\ (ipc.input.ipc # "COMPLETE" /\ ipc.result.ipc = "COMPLETE") =>
          /\ ipc.corrected
          /\ "ipc_model" \notin ipc.open
    /\ ipc.pc = "done" => ipc.result.ipc \in {"SKIPPED", "COMPLETE"}

C25_InputModelUnchanged ==
    /\ lin.heap.input_model = lin.given.input_model
    /\ lin.pc = "done" =>
          /\ lin.output_model # "input_model"
          /\ OutputModel.groupdq = lin.given.input_model.groupdq
          /\ OutputModel.subarray = lin.given.input_model.subarray
          /\ DOMAIN OutputModel = DOMAIN lin.given.input_model

\* A returned call whose output differs from the input in data and pixeldq.
C25_Witness ==
    /\ lin.pc = "done"
    /\ OutputModel.data # lin.given.input_model.data
    /\ OutputModel.pixeldq # lin.given.input_model.pixeldq

\* Bit b of the word w is set.
HasBit(w, b) == (w \div (2 ^ b)) % 2 = 1

\* The bits of a pixel DQ word that the models use: 0 to 20 (NO_LIN_CORR).
DQBits == 0..20

\* The reference DQ and coefficients over the science pixels, as they were
\* when the call was made: the arrays themselves when the sizes match,
\* their subarray otherwise.
GivenRefDQ ==
    IF RefMatchesSci(lin.given.lin_model, lin.given.input_model)
    THEN lin.given.lin_model.dq
    ELSE GetSubarray(lin.given.lin_model.dq, 2, lin.given.input_model)

GivenRefCoeffs ==
    IF RefMatchesSci(lin.given.lin_model, lin.given.input_model)
    THEN lin.given.lin_model.coeffs
    ELSE GetSubarray(lin.given.lin_model.coeffs, 3, lin.given.input_model)

\* The science pixels, and those with a NaN among their given coefficients.
SciencePixels ==
    (1..Len(lin.given.input_model.pixeldq))
        \X (1..Len(lin.given.input_model.pixeldq[1]))

GivenNaN(p) ==
    \E z \in 1..Len(GivenRefCoeffs) : IsNaN(GivenRefCoeffs[z][p[1]][p[2]])

\* C26: after the DQ propagation and the NaN check, a bit of the output
\* pixeldq is set exactly when it is set in the input pixeldq or in the
\* reference DQ of that pixel, or it is NO_LIN_CORR and the pixel has a NaN
\* coefficient; no bit of the input pixeldq is cleared.
C26_PixelDQOnlyGains ==
    lin.pc \in {"apply", "done"} =>
        LET refdq == GivenRefDQ
        IN  \A p \in SciencePixels : \A b \in DQBits :
               LET before == HasBit(lin.given.input_model.pixeldq[p[1]][p[2]], b)
                   after == HasBit(OutputModel.pixeldq[p[1]][p[2]], b)
               IN  /\ after <=> \/ before
                                \/ HasBit(refdq[p[1]][p[2]], b)
                                \/ (2 ^ b = NO_LIN_CORR /\ GivenNaN(p))
                   /\ before => after

\* A returned subarray call with a pixel that has a NaN coefficient and no
\* NO_LIN_CORR in the reference DQ, a pixel with NO_LIN_CORR set both in the
\* input pixeldq and the reference DQ, and a pixel with another input bit.
C26_Witness ==
    /\ lin.pc = "done"
    /\ ~RefMatchesSci(lin.given.lin_model, lin.given.input_model)
    /\ \E p \in SciencePixels :
          /\ GivenNaN(p)
          /\ ~HasBit(GivenRefDQ[p[1]][p[2]], 20)
          /\ HasBit(lin.given.input_model.pixeldq[p[1]][p[2]], 0)
          /\ HasBit(OutputModel.pixeldq[p[1]][p[2]], 20)
    /\ \E p \in SciencePixels :
          /\ HasBit(GivenRefDQ[p[1]][p[2]], 20)
          /\ HasBit(lin.given.input_model.pixeldq[p[1]][p[2]], 20)

\* The coefficient array apply_linearity has in lin_coeffs.
LinCoeffsNow == Gather(lin.heap.lin_model.coeffs, 3, lin.lin_coeffs)

\* The pixel p is flagged NO_LIN_CORR in the given reference DQ.
GivenFlagged(p) == HasBit(GivenRefDQ[p[1]][p[2]], 20)

\* C27: the coefficient array handed to apply_linearity_func has no NaN;
\* a pixel flagged NO_LIN_CORR in the reference DQ or with a NaN coefficient
\* has the benign coefficients (1.0 at index 1, 0.0 elsewhere), a NaN pixel
\* has NO_LIN_CORR in the output pixeldq, and every other pixel has the
\* coefficients of the reference.
C27_BenignCoefficients ==
    lin.pc = "apply" =>
        LET handed == LinCoeffsNow
            given == GivenRefCoeffs
        IN  \A p \in SciencePixels : \A z \in 1..Len(handed) :
               /\ ~IsNaN(handed[z][p[1]][p[2]])
               /\ IF GivenFlagged(p) \/ GivenNaN(p)
                  THEN handed[z][p[1]][p[2]] = (IF z - 1 = 1 THEN One ELSE Zero)
                  ELSE handed[z][p[1]][p[2]] = given[z][p[1]][p[2]]
               /\ GivenNaN(p) => HasBit(OutputModel.pixeldq[p[1]][p[2]], 20)

\* Three coefficients per pixel; one pixel has a NaN and no flag, the other
\* a flag and no NaN, and both have the benign coefficients now.
C27_Witness ==
    /\ lin.pc = "apply"
    /\ Len(lin.given.lin_model.coeffs) = 3
    /\ \E p \in SciencePixels : \E q \in SciencePixels :
          /\ GivenNaN(p) /\ ~GivenFlagged(p)
          /\ GivenFlagged(q) /\ ~GivenNaN(q)
          /\ \A z \in 1..3 :
                /\ LinCoeffsNow[z][p[1]][p[2]] = LinCoeffsNow[z][q[1]][q[2]]
                /\ LinCoeffsNow[z][q[1]][q[2]] # GivenRefCoeffs[z][q[1]][q[2]]

\* The planes of an array of 2 or 3 dimensions.
Planes(a, ndim) == IF ndim = 2 THEN <<a>> ELSE a

\* C28: get_subarray raises ValueError when one of xstart, xsize, ystart,
\* ysize is None; otherwise it returns, with the leading dimensions intact,
\* exactly ysize rows and xsize columns: the rows ystart-1 .. ystart-1+ysize-1
\* and the columns xstart-1 .. xstart-1+xsize-1 (0-based) of every plane.
C28_ExactSubarray ==
    subarr.pc \in {"returned", "raised"} =>
        IF SubarrayMissing(subarr.reference)
        THEN subarr.pc = "raised" /\ subarr.raised = "ValueError"
        ELSE LET m == subarr.reference.subarray
                 given == Planes(subarr.input_array, subarr.ndim)
                 result == Planes(subarr.result, subarr.ndim)
             IN  /\ subarr.pc = "returned"
                 /\ Len(result) = Len(given)
                 /\ \A z \in 1..Len(result) :
                       /\ Len(result[z]) = m.ysize
                       /\ \A r \in 1..m.ysize :
                             /\ Len(result[z][r]) = m.xsize
                             /\ \A c \in 1..m.xsize :
                                   result[z][r][c] =
                                       given[z][m.ystart - 1 + r][m.xstart - 1 + c]

\* The smaller of two numbers.
Least(a, b) == IF a < b THEN a ELSE b

\* C28 (amended): get_subarray raises ValueError when one of the four
\* values is None; otherwise, for starts of at least 1, it returns with the
\* leading dimensions intact the rows ystart-1 .. ystart-1+ysize-1 and the
\* columns xstart-1 .. xstart-1+xsize-1 (0-based) that the array has: the
\* window is clipped at the edges of the array, and the result has ysize
\* rows and xsize columns exactly when the window lies inside the array.
C28_ClippedSubarray ==
    subarr.pc \in {"returned", "raised"} =>
        IF SubarrayMissing(subarr.reference)
        THEN subarr.pc = "raised" /\ subarr.raised = "ValueError"
        ELSE LET m == subarr.reference.subarray
                 given == Planes(subarr.input_array, subarr.ndim)
                 result == Planes(subarr.result, subarr.ndim)
                 ny == Len(given[1])
                 nx == Len(given[1][1])
                 y0 == Least(m.ystart - 1, ny)
                 y1 == Least(m.ystart - 1 + m.ysize, ny)
                 x0 == Least(m.xstart - 1, nx)
                 x1 == Least(m.xstart - 1 + m.xsize, nx)
             IN  /\ subarr.pc = "returned"
                 /\ Len(result) = Len(given)
                 /\ (m.ystart >= 1 /\ m.xstart >= 1) =>
                       \A z \in 1..Len(result) :
                          /\ Len(result[z]) = y1 - y0
                          /\ \A r \in 1..(y1 - y0) :
                                /\ Len(result[z][r]) = x1 - x0
                                /\ \A c \in 1..(x1 - x0) :
                                      result[z][r][c] = given[z][y0 + r][x0 + c]

\* A returned 3-d subarray that starts at row 2 and column 2 and is clipped
\* at the last column: 3 columns were asked for and 2 are returned.
C28_Witness ==
    /\ subarr.pc = "returned"
    /\ subarr.ndim = 3
    /\ subarr.reference.subarray = [xstart |-> 2, xsize |-> 3, ystart |-> 2, ysize |-> 1]
    /\ subarr.result = << << <<122, 123>> >>, << <<222, 223>> >> >>

\* C29: do_correction does not modify the linearity reference model:
\* lin_model.coeffs and lin_model.dq hold the values they had when the call
\* was made, also with flagged or NaN pixels, full frame or subarray.
C29_ReferenceModelUnchanged ==
    lin.heap.lin_model = lin.given.lin_model

=============================================================================
